---- MODULE Spec2Model ----
(***************************************************************************)
(* Model of the API key rotation and failover manager (class               *)
(* APIKeyManager) of the quiz generator: the key pool, getBestKey,         *)
(* reportFailure and the retry loop of execute, with several execute       *)
(* calls in flight on one JavaScript event loop; and of the state of the   *)
(* App component that starts the quiz generation through it, of the        *)
(* InputSection component that collects the media items, and of the        *)
(* QuizDisplay component that has the answers graded through it.           *)
(*                                                                         *)
(* A string is a sequence of one-character strings.  A time is a number    *)
(* of milliseconds as returned by Date.now().                              *)
(***************************************************************************)
EXTENDS Integers, Sequences, FiniteSets, TLC

\* ------------------------------------------------------------------ bounds
NumCallers == 2      \* execute calls that can be in flight together
MaxCalls == 2        \* execute calls started in one behaviour of Spec
MaxTicks == 1        \* clock advances in one behaviour of Spec
MaxSeqCalls == 3     \* execute calls started in one behaviour of SpecSeq
MaxSeqTicks == 2     \* clock advances in one behaviour of SpecSeq
MaxKeys == 3         \* keys configured in process.env.API_KEY
MaxErrCalls == 1     \* execute calls started in one behaviour of SpecErr
MaxPairCalls == 3    \* execute calls started in one behaviour of SpecPair
MaxAppCalls == 2     \* quiz generations started in one behaviour of SpecApp
MaxLiveCalls == 2    \* execute calls started in one behaviour of SpecLive
MaxEnvLen == 4       \* characters of process.env.API_KEY in SpecParse
MaxParseCalls == 1   \* execute calls started in one behaviour of SpecParse
MaxQuizCalls == 3    \* execute calls started in one behaviour of SpecQuiz
MaxGradings == 2     \* gradings that can be in flight together in SpecQuiz
MaxMediaItems == 11  \* media items attached or being read in SpecInput
StartTime == 1       \* Date.now() when the module is loaded (> 0)

\* ------------------------------------------------------- program constants
COOLDOWN_DURATION == 60000

\* ------------------------------------------------------------ the strings
Comma == ","
Space == " "
Tab == "\t"

\* the white space of String.prototype.trim that the model's strings hold
WhiteSpace == {Space, Tab}

\* String.prototype.trim: drop the white space at both ends
RECURSIVE TrimStart(_)
TrimStart(s) ==
    IF s # <<>> /\ Head(s) \in WhiteSpace THEN TrimStart(Tail(s)) ELSE s

RECURSIVE TrimEnd(_)
TrimEnd(s) ==
    IF s # <<>> /\ s[Len(s)] \in WhiteSpace
    THEN TrimEnd(SubSeq(s, 1, Len(s) - 1)) ELSE s

Trim(s) == TrimEnd(TrimStart(s))

\* String.prototype.split(','): the pieces between the commas, always at
\* least one piece
RECURSIVE Split(_)
Split(s) ==
    IF \A i \in 1..Len(s) : s[i] # Comma
    THEN <<s>>
    ELSE LET i == CHOOSE j \in 1..Len(s) :
                     s[j] = Comma /\ \A h \in 1..(j - 1) : s[h] # Comma
         IN  <<SubSeq(s, 1, i - 1)>> \o Split(SubSeq(s, i + 1, Len(s)))

MapTrim(pieces) == [i \in 1..Len(pieces) |-> Trim(pieces[i])]

NonEmpty(k) == Len(k) > 0

\* a slip of the parsing: the pieces are filtered but not trimmed
rawKeysUntrimmed(keysString) == SelectSeq(Split(keysString), NonEmpty)

\* keysString.split(',').map(k => k.trim()).filter(k => k.length > 0)
rawKeys(keysString) == SelectSeq(MapTrim(Split(keysString)), NonEmpty)

\* One KeyState object.  id is the identity of the object (its index at
\* construction): JavaScript objects keep their identity when an array is
\* sorted or filtered.
KeyState(i, k) ==
    [id |-> i, key |-> k, lastUsed |-> 0, usageCount |-> 0, cooldownUntil |-> 0]

\* the constructor: process.env.API_KEY || "" is the empty string when the
\* variable is absent
Constructor(keysString) ==
    LET raw == rawKeys(keysString)
    IN  [i \in 1..Len(raw) |-> KeyState(i, raw[i])]

\* the values of process.env.API_KEY the model starts from
EnvStrings ==
    { env \in { <<>>,
                <<" ", ",", " ">>,
                <<"a">>,
                <<"a", ",", "b">>,
                <<" ", "a", ",", ",", "b", " ">>,
                <<"a", ",", "a">>,
                <<"a", ",", "b", ",", "c">>,
                <<"a", ",", "b", ",", "c", ",", "d">> } :
          Len(rawKeys(env)) <= MaxKeys }

\* every value of process.env.API_KEY of up to MaxEnvLen characters
EnvAlphabet == {"a", "b", Comma, Space, Tab}

AllEnvStrings ==
    { env \in UNION {[1..n -> EnvAlphabet] : n \in 0..MaxEnvLen} :
          Len(rawKeys(env)) <= MaxKeys }

\* ------------------------------------------------------------ array sorts
\* a slip of stability: of two elements that compare equal the later one of
\* the array comes first
InsertFirst(sorted, x, f) ==
    LET n == Cardinality({i \in 1..Len(sorted) : sorted[i][f] < x[f]})
    IN  SubSeq(sorted, 1, n) \o <<x>> \o SubSeq(sorted, n + 1, Len(sorted))

\* Array.prototype.sort((a, b) => a[f] - b[f]): ascending and stable
InsertLast(sorted, x, f) ==
    LET n == Cardinality({i \in 1..Len(sorted) : sorted[i][f] <= x[f]})
    IN  SubSeq(sorted, 1, n) \o <<x>> \o SubSeq(sorted, n + 1, Len(sorted))

RECURSIVE SortByField(_, _)
SortByField(s, f) ==
    IF s = <<>> THEN <<>>
    ELSE InsertLast(SortByField(SubSeq(s, 1, Len(s) - 1), f), s[Len(s)], f)

\* ------------------------------------------------------------ the key pool
\* null, and the falsy empty string that `key || null` turns into null
NoKey == <<>>

\* a slip of the comparison: a key is still skipped at the very millisecond
\* its cooldown ends
IsActiveStrict(k, t) == t > k.cooldownUntil

\* this.keys.filter(k => now >= k.cooldownUntil)
IsActive(k, t) == t >= k.cooldownUntil

activeKeys(ks, t) == SelectSeq(ks, LAMBDA k : IsActive(k, t))

Reverse(s) == [i \in 1..Len(s) |-> s[Len(s) + 1 - i]]

\* a slip of the comparator: b.cooldownUntil - a.cooldownUntil
SoonestLast(ks) == Reverse(SortByField(ks, "cooldownUntil"))

\* this.keys.sort((a, b) => a.cooldownUntil - b.cooldownUntil)
SoonestFirst(ks) == SortByField(ks, "cooldownUntil")

\* getBestKey at Date.now() = t.  The result holds the array this.keys as
\* the call leaves it, the returned key, and the identity of the object
\* the key was read from (0 when there is none).
getBestKey(ks, t) ==
    LET active == activeKeys(ks, t)
    IN  IF Len(active) = 0
        THEN \* this.keys.sort(...) sorts this.keys itself
             LET sorted == SoonestFirst(ks)
             IN  [keys |-> sorted,
                  key  |-> IF Len(sorted) > 0 THEN sorted[1].key ELSE NoKey,
                  id   |-> IF Len(sorted) > 0 THEN sorted[1].id ELSE 0]
        ELSE \* activeKeys is a new array holding the same objects
             LET selected == SortByField(active, "lastUsed")[1]
             IN  [keys |-> [i \in 1..Len(ks) |->
                              IF ks[i].id = selected.id
                              THEN [ks[i] EXCEPT !.lastUsed = t,
                                                 !.usageCount = @ + 1]
                              ELSE ks[i]],
                  key  |-> selected.key,
                  id   |-> selected.id]

\* this.keys.find(k => k.key === keyString): index of the first match, 0
\* when there is none
FindKey(ks, keyString) ==
    IF \E i \in 1..Len(ks) : ks[i].key = keyString
    THEN CHOOSE i \in 1..Len(ks) :
             ks[i].key = keyString /\ \A j \in 1..(i - 1) : ks[j].key # keyString
    ELSE 0

\* a slip of the bookkeeping: the failure also counts as a use of the key
reportFailureTouch(ks, keyString, t) ==
    LET i == FindKey(ks, keyString)
    IN  IF i = 0 THEN ks
        ELSE [ks EXCEPT ![i].cooldownUntil = t + COOLDOWN_DURATION,
                        ![i].lastUsed = t]

\* a slip of the lookup: the failure of one key puts every key in cooldown
reportFailureAll(ks, keyString, t) ==
    [i \in 1..Len(ks) |->
        [ks[i] EXCEPT !.cooldownUntil = t + COOLDOWN_DURATION]]

\* a slip of the penalty: the failing key is taken out of the pool
reportFailureDrop(ks, keyString, t) ==
    SelectSeq(ks, LAMBDA k : k.key # keyString)

\* a slip of the unit: a cooldown of 60 milliseconds
reportFailureShort(ks, keyString, t) ==
    LET i == FindKey(ks, keyString)
    IN  IF i = 0 THEN ks
        ELSE [ks EXCEPT ![i].cooldownUntil = t + 60]

\* reportFailure(keyString) at Date.now() = t
reportFailure(ks, keyString, t) ==
    LET i == FindKey(ks, keyString)
    IN  IF i = 0 THEN ks
        ELSE [ks EXCEPT ![i].cooldownUntil = t + COOLDOWN_DURATION]

\* ------------------------------------------------- values that are thrown
\* A thrown value: an object (kind "object") whose message contains the
\* listed markers and which may carry a numeric status, a falsy primitive
\* such as "" or 0 (kind "falsy"), or null/undefined (kind "nullish").
Thrown(kind, message, hasStatus, status) ==
    [kind |-> kind, message |-> message, hasStatus |-> hasStatus, status |-> status]

StatusError(status) == Thrown("object", {}, TRUE, status)
MessageError(markers) == Thrown("object", markers, FALSE, 0)
FalsyValue == Thrown("falsy", {}, FALSE, 0)
NullValue == Thrown("nullish", {}, FALSE, 0)

\* new Error("No API keys configured.")
ConfigError == MessageError({"No API keys configured."})
\* new Error("Failed to execute API request after multiple attempts.")
GenericError == MessageError({"Failed to execute API request after multiple attempts."})
\* the TypeError of reading a property of null or undefined
TypeError == MessageError({"Cannot read properties of null"})

\* what an operation can reject with
OperationErrors ==
    { StatusError(429), StatusError(503), StatusError(404),
      FalsyValue, NullValue }

\* rejections told apart by their status and by the status codes and
\* words their message holds
ClassifiedErrors ==
    { StatusError(429), StatusError(500), StatusError(599), StatusError(600),
      StatusError(404), MessageError({"Quota"}), MessageError({"503"}),
      MessageError({}), Thrown("object", {"500"}, TRUE, 400) }

\* what an operation can resolve with: the payload computed with the key
\* it was given
OperationResult(key) == [from |-> key, data |-> "quiz"]
NoResult == [from |-> NoKey, data |-> "none"]

\* JavaScript truthiness of a thrown value
Truthy(e) == e.kind = "object"

\* error.message?.includes("429") || error.message?.includes("Quota")
\*   || error.status === 429
isRateLimit(e) ==
    \/ "429" \in e.message
    \/ "Quota" \in e.message
    \/ (e.hasStatus /\ e.status = 429)

\* a slip of the threshold: every client error counts as a server error
isServerErrorLoose(e) ==
    \/ "500" \in e.message
    \/ "503" \in e.message
    \/ (e.hasStatus /\ e.status >= 400)

\* error.message?.includes("500") || error.message?.includes("503")
\*   || error.status >= 500
isServerError(e) ==
    \/ "500" \in e.message
    \/ "503" \in e.message
    \/ (e.hasStatus /\ e.status >= 500)

\* throw lastError || new Error("Failed to execute ...")
TerminalError(lastErr) == IF Truthy(lastErr) THEN lastErr ELSE GenericError

\* ------------------------------------------------------------------ state
Callers == 1..NumCallers

VARIABLES
    keysString,   \* process.env.API_KEY || "" as the constructor read it
    keys,         \* this.keys of the singleton keyManager
    now,          \* the value Date.now() returns
    pc,           \* per execute call: "idle", "awaiting", "returned", "thrown"
    attempts,     \* per execute call: the local attempts
    maxAttempts,  \* per execute call: the local maxAttempts
    lastError,    \* per execute call: the local lastError
    currentKey,   \* per execute call: the local currentKey
    outcome,      \* per execute call: what the promise settled with
    log,          \* history: per execute call, its attempts so far
    lastSel,      \* history: the getBestKey call of the step just taken
    reportedAt,   \* history: per key object, time its cooldown was last set
    win,          \* history: the current run of back-to-back successful calls
    calls,        \* history: number of execute calls started
    ticks,        \* history: number of clock advances
    app,          \* the state of the App component (its useState values)
    input,        \* the state of the InputSection component
    quiz          \* the state of the QuizDisplay component

vars == <<keysString, keys, now, pc, attempts, maxAttempts, lastError,
          currentKey, outcome, log, lastSel, reportedAt, win, calls, ticks,
          app, input, quiz>>

\* the state of the user interface
uiVars == <<app, input, quiz>>

NoOutcome == [type |-> "none", result |-> NoResult, error |-> NullValue]
Returned(r) == [type |-> "return", result |-> r, error |-> NullValue]
Threw(e) == [type |-> "throw", result |-> NoResult, error |-> e]

\* one attempt in the history of a call: the key object and the key handed
\* to operation, how the attempt ended, and whether it led to reportFailure
Attempt(id, key) ==
    [id |-> id, key |-> key, state |-> "pending", penalized |-> FALSE]

NoSel == [made |-> FALSE, at |-> 0, before |-> <<>>, rep |-> <<>>,
          id |-> 0, key |-> NoKey]

\* the record of a getBestKey call at time t on the array ks
Selection(ks, rep, t, g) ==
    [made |-> TRUE, at |-> t, before |-> ks, rep |-> rep, id |-> g.id, key |-> g.key]

\* reportedAt after reportFailure(keyString) at time t on the array ks
Reported(rep, ks, keyString, t) ==
    LET i == FindKey(ks, keyString)
    IN  IF i = 0 THEN rep ELSE [rep EXCEPT ![ks[i].id] = t]

NoWin == [open |-> FALSE, snap |-> <<>>, picks |-> <<>>]

AllHealthy(ks, t) == \A i \in 1..Len(ks) : ks[i].cooldownUntil <= t

\* win after an execute call selects key object id on the array ks at time
\* t: the call continues the run when no call is in flight and the run is
\* shorter than the pool; it starts a run when no call is in flight and all
\* keys are healthy
WinAfterCall(ks, t, id) ==
    LET quiet == \A q \in DOMAIN pc : pc[q] # "awaiting"
    IN  IF quiet /\ win.open /\ Len(win.picks) < Len(ks)
        THEN [win EXCEPT !.picks = @ \o <<id>>]
        ELSE IF quiet /\ Len(ks) > 0 /\ AllHealthy(ks, t)
        THEN [open |-> TRUE, snap |-> ks, picks |-> <<id>>]
        ELSE NoWin

\* null of error, pendingBase64 and pendingMime
Null == "null"

\* null of quizData
NoQuizData == NoResult

\* the useState initial values of App; left is history: whether the user
\* has left the configuration step since the last start of a generation
AppInit ==
    [step |-> "input", pendingText |-> "", pendingBase64 |-> Null,
     pendingMime |-> Null, quizData |-> NoQuizData, isLoading |-> FALSE,
     error |-> Null, left |-> FALSE]

\* the useState initial values of InputSection; reading is the bag of the
\* files whose FileReader has not finished, by MIME type, and dialog tells
\* whether the file dialog of the file input on screen is open
InputInit ==
    [mode |-> "upload", mediaItems |-> <<>>, reading |-> <<>>,
     dialog |-> FALSE]

\* Arabic words, letter by letter, each letter under its Unicode name:
\* the two answers of a true/false question (right, wrong)
Sah == <<"sad", "hah">>
Khata == <<"khah", "tah", "alef with hamza above">>

\* two texts typed into a text area
Essay == <<"e", "s", "s", "a", "y">>
Guess == <<"g", "u", "e", "s", "s">>

\* the questions of the quiz on screen: one answered with a button, one
\* with a text that the grading service judges
Questions ==
    << [id |-> 1, type |-> "TrueFalse", correctAnswer |-> Sah],
       [id |-> 2, type |-> "ShortAnswer", correctAnswer |-> Essay] >>

QuestionIds == {Questions[i].id : i \in 1..Len(Questions)}

\* undefined, set apart from every string (no character is "undefined"):
\* userAnswers[q.id] of a question without entry, and the mimeType that
\* InputSection does not pass
Undefined == <<"undefined">>

\* aiGrades[q.id] of a question without entry: aiGrades[q.id]?.isCorrect is
\* undefined, which is falsy
Ungraded == [questionId |-> 0, isCorrect |-> FALSE]

\* the execute calls of the user interface: call 1 is the quiz generation
\* of App, the others are the gradings of QuizDisplay
GradingCallers == 2..(1 + MaxGradings)
QuizCallers == {1} \cup GradingCallers

\* userAnswers of a screen on which no question is answered: {}
NoAnswers == [q \in QuestionIds |-> Undefined]

\* the useState initial values of QuizDisplay.  pending holds the
\* handleFinishExam calls of this screen that stand at their await, and
\* sent the userAnswers each of them passed to gradeShortAnswers.  failed,
\* finished and clicked are history: whether the grading that settled last
\* on this screen failed, the answers that grading was started with, and
\* whether an answer button was clicked after the results were shown.
QuizInit ==
    [showAnswers |-> FALSE, isGrading |-> FALSE,
     userAnswers |-> NoAnswers,
     aiGrades |-> [q \in QuestionIds |-> Ungraded],
     pending |-> {},
     sent |-> [p \in GradingCallers |-> NoAnswers],
     failed |-> FALSE,
     finished |-> NoAnswers,
     clicked |-> FALSE]

\* the state after the module is loaded, with process.env.API_KEY one of
\* envs and the execute calls procs
InitOver(envs, procs) ==
    /\ app = AppInit
    /\ input = InputInit
    /\ quiz = QuizInit
    /\ keysString \in envs
    /\ keys = Constructor(keysString)
    /\ now = StartTime
    /\ pc = [p \in procs |-> "idle"]
    /\ attempts = [p \in procs |-> 0]
    /\ maxAttempts = [p \in procs |-> 0]
    /\ lastError = [p \in procs |-> NullValue]
    /\ currentKey = [p \in procs |-> NoKey]
    /\ outcome = [p \in procs |-> NoOutcome]
    /\ log = [p \in procs |-> <<>>]
    /\ lastSel = NoSel
    /\ reportedAt = [i \in 1..Len(keys) |-> 0]
    /\ win = NoWin
    /\ calls = 0
    /\ ticks = 0

InitWith(envs) == InitOver(envs, Callers)

Init == InitWith(EnvStrings)

\* a slip of the loop head: operation is called without the check of
\* currentKey
LoopHeadUnchecked(p, ks, t, lg) ==
    LET g == getBestKey(ks, t)
    IN  /\ keys' = g.keys
        /\ lastSel' = Selection(ks, reportedAt', t, g)
        /\ currentKey' = [currentKey EXCEPT ![p] = g.key]
        /\ pc' = [pc EXCEPT ![p] = "awaiting"]
        /\ outcome' = [outcome EXCEPT ![p] = NoOutcome]
        /\ log' = [log EXCEPT ![p] = lg \o <<Attempt(g.id, g.key)>>]

\* a slip of the loop head: without a key the loop goes round again instead
\* of throwing, and never reaches an await
LoopHeadSpin(p, ks, t, lg) ==
    LET g == getBestKey(ks, t)
    IN  /\ keys' = g.keys
        /\ lastSel' = Selection(ks, reportedAt', t, g)
        /\ currentKey' = [currentKey EXCEPT ![p] = g.key]
        /\ outcome' = [outcome EXCEPT ![p] = NoOutcome]
        /\ IF g.key = NoKey
           THEN /\ pc' = [pc EXCEPT ![p] = "looping"]
                /\ log' = [log EXCEPT ![p] = lg]
           ELSE /\ pc' = [pc EXCEPT ![p] = "awaiting"]
                /\ log' = [log EXCEPT ![p] = lg \o <<Attempt(g.id, g.key)>>]

\* One pass through the head of the while loop of execute, at time t on
\* the array ks, up to the await of operation(currentKey): getBestKey, then
\* either the throw of the configuration error or the call of operation.
\* lg is the history of the call so far.
LoopHead(p, ks, t, lg) ==
    LET g == getBestKey(ks, t)
    IN  /\ keys' = g.keys
        /\ lastSel' = Selection(ks, reportedAt', t, g)
        /\ currentKey' = [currentKey EXCEPT ![p] = g.key]
        /\ IF g.key = NoKey
           THEN /\ pc' = [pc EXCEPT ![p] = "thrown"]
                /\ outcome' = [outcome EXCEPT ![p] = Threw(ConfigError)]
                /\ log' = [log EXCEPT ![p] = lg]
           ELSE /\ pc' = [pc EXCEPT ![p] = "awaiting"]
                /\ outcome' = [outcome EXCEPT ![p] = NoOutcome]
                /\ log' = [log EXCEPT ![p] = lg \o <<Attempt(g.id, g.key)>>]

\* a slip of the retry budget: one attempt more than there are keys
MaxAttemptsPlusOne(ks) == Len(ks) + 1

\* const maxAttempts = this.keys.length > 0 ? this.keys.length : 1
MaxAttemptsOf(ks) == IF Len(ks) > 0 THEN Len(ks) ELSE 1

\* execute(operation) is called: the synchronous part up to the first await
Call(p) ==
    /\ pc[p] # "awaiting"
    /\ calls' = calls + 1
    /\ attempts' = [attempts EXCEPT ![p] = 0]
    /\ maxAttempts' = [maxAttempts EXCEPT ![p] = MaxAttemptsOf(keys)]
    /\ lastError' = [lastError EXCEPT ![p] = NullValue]
    /\ reportedAt' = reportedAt
    /\ LoopHead(p, keys, now, <<>>)
    /\ win' = WinAfterCall(keys, now, lastSel'.id)
    /\ UNCHANGED <<keysString, now, ticks>>

\* a slip of the success path: the key is reported as failed all the same
ResolveReporting(p) ==
    /\ pc[p] = "awaiting"
    /\ pc' = [pc EXCEPT ![p] = "returned"]
    /\ outcome' = [outcome EXCEPT ![p] = Returned(OperationResult(currentKey[p]))]
    /\ log' = [log EXCEPT ![p] =
                  [@ EXCEPT ![Len(@)] = [@ EXCEPT !.state = "resolved"]]]
    /\ lastSel' = NoSel
    /\ keys' = reportFailure(keys, currentKey[p], now)
    /\ UNCHANGED <<keysString, now, attempts, maxAttempts, lastError,
                   currentKey, reportedAt, win, calls, ticks>>

\* a slip of the success path: the result is kept for later and the loop
\* goes round once more
ResolveRetrying(p) ==
    /\ pc[p] = "awaiting"
    /\ reportedAt' = reportedAt
    /\ LoopHead(p, keys, now,
                [log[p] EXCEPT ![Len(log[p])] = [@ EXCEPT !.state = "resolved"]])
    /\ UNCHANGED <<keysString, now, attempts, maxAttempts, lastError,
                   win, calls, ticks>>

\* the promise of operation(currentKey) fulfils: return await operation(...)
Resolve(p) ==
    /\ pc[p] = "awaiting"
    /\ pc' = [pc EXCEPT ![p] = "returned"]
    /\ outcome' = [outcome EXCEPT ![p] = Returned(OperationResult(currentKey[p]))]
    /\ log' = [log EXCEPT ![p] =
                  [@ EXCEPT ![Len(@)] = [@ EXCEPT !.state = "resolved"]]]
    /\ lastSel' = NoSel
    /\ UNCHANGED <<keysString, keys, now, attempts, maxAttempts, lastError,
                   currentKey, reportedAt, win, calls, ticks>>

\* The promise of operation(currentKey) rejects with e: the catch block and,
\* when the budget is not used up, the next pass through the loop head.  The
\* clock moves on by d between the Date.now() of reportFailure and the one
\* of getBestKey.
Reject(p, e, d) ==
    /\ pc[p] = "awaiting"
    /\ lastError' = [lastError EXCEPT ![p] = e]
    /\ attempts' = [attempts EXCEPT ![p] = @ + 1]
    /\ win' = NoWin
    /\ UNCHANGED <<keysString, maxAttempts, calls>>
    /\ LET logged == [log[p] EXCEPT ![Len(log[p])] =
                         [@ EXCEPT !.state = "rejected",
                                   !.penalized = e.kind # "nullish"
                                       /\ (isRateLimit(e) \/ isServerError(e))]]
       IN
       IF e.kind = "nullish"
       THEN \* error.message throws a TypeError inside the catch block
            /\ d = 0
            /\ pc' = [pc EXCEPT ![p] = "thrown"]
            /\ outcome' = [outcome EXCEPT ![p] = Threw(TypeError)]
            /\ log' = [log EXCEPT ![p] = logged]
            /\ lastSel' = NoSel
            /\ UNCHANGED <<keys, now, currentKey, reportedAt, ticks>>
       ELSE LET penalize == isRateLimit(e) \/ isServerError(e)
                ks == IF penalize
                      THEN reportFailure(keys, currentKey[p], now)
                      ELSE keys
            IN  /\ reportedAt' = IF penalize
                                 THEN Reported(reportedAt, keys, currentKey[p], now)
                                 ELSE reportedAt
                /\ IF attempts'[p] >= maxAttempts[p]
                   THEN \* break, then throw lastError || new Error(...)
                        /\ d = 0
                        /\ keys' = ks
                        /\ pc' = [pc EXCEPT ![p] = "thrown"]
                        /\ outcome' = [outcome EXCEPT ![p] = Threw(TerminalError(e))]
                        /\ log' = [log EXCEPT ![p] = logged]
                        /\ lastSel' = NoSel
                        /\ UNCHANGED <<now, currentKey, ticks>>
                   ELSE /\ now' = now + d
                        /\ ticks' = ticks + d
                        /\ LoopHead(p, ks, now + d, logged)

\* time passes between two steps of the event loop
TickSteps == {1, COOLDOWN_DURATION}

Tick(d) ==
    /\ ticks' = ticks + 1
    /\ now' = now + d
    /\ lastSel' = NoSel
    /\ UNCHANGED <<keysString, keys, pc, attempts, maxAttempts, lastError,
                   currentKey, outcome, log, reportedAt, win, calls>>

\* Spec: execute calls of all callers interleave at their awaits
Next ==
    \/ \E p \in Callers : calls < MaxCalls /\ Call(p) /\ UNCHANGED uiVars
    \/ \E p \in Callers : Resolve(p) /\ UNCHANGED uiVars
    \/ \E p \in Callers, e \in OperationErrors, d \in {0, 1} :
          ticks + d <= MaxTicks /\ Reject(p, e, d) /\ UNCHANGED uiVars
    \/ \E d \in TickSteps : ticks < MaxTicks /\ Tick(d) /\ UNCHANGED uiVars

Spec == Init /\ [][Next]_vars

\* SpecSeq: one caller that awaits each execute call before the next one
NextSeq ==
    \/ calls < MaxSeqCalls /\ Call(1) /\ UNCHANGED uiVars
    \/ Resolve(1) /\ UNCHANGED uiVars
    \/ \E e \in OperationErrors, d \in {0, 1} :
          ticks + d <= MaxSeqTicks /\ Reject(1, e, d) /\ UNCHANGED uiVars
    \/ \E d \in TickSteps : ticks < MaxSeqTicks /\ Tick(d) /\ UNCHANGED uiVars

SpecSeq == Init /\ [][NextSeq]_vars

\* SpecErr: one execute call whose attempts reject with any of the
\* classified errors, all within one millisecond
NextErr ==
    \/ calls < MaxErrCalls /\ Call(1) /\ UNCHANGED uiVars
    \/ Resolve(1) /\ UNCHANGED uiVars
    \/ \E e \in ClassifiedErrors : Reject(1, e, 0) /\ UNCHANGED uiVars

SpecErr == Init /\ [][NextErr]_vars

\* SpecPair: execute calls of all callers interleave at their awaits; an
\* attempt succeeds or fails with status 404
NextPair ==
    \/ \E p \in Callers : calls < MaxPairCalls /\ Call(p) /\ UNCHANGED uiVars
    \/ \E p \in Callers : Resolve(p) /\ UNCHANGED uiVars
    \/ \E p \in Callers : Reject(p, StatusError(404), 0) /\ UNCHANGED uiVars
    \/ ticks < MaxTicks /\ Tick(1) /\ UNCHANGED uiVars

SpecPair == Init /\ [][NextPair]_vars

\* SpecParse: the manager is constructed from any configuration string and
\* one execute call is made on it
NextParse ==
    \/ calls < MaxParseCalls /\ Call(1) /\ UNCHANGED uiVars
    \/ Resolve(1) /\ UNCHANGED uiVars
    \/ Reject(1, StatusError(429), 0) /\ UNCHANGED uiVars

SpecParse == InitWith(AllEnvStrings) /\ [][NextParse]_vars

\* the promise of operation(currentKey) of call p settles
Settle(p) ==
    /\ Resolve(p) \/ \E e \in OperationErrors : Reject(p, e, 0)
    /\ UNCHANGED uiVars

\* SpecLive: execute calls of all callers interleave at their awaits, and
\* every invocation of operation settles in the end
NextLive ==
    \/ \E p \in Callers : calls < MaxLiveCalls /\ Call(p) /\ UNCHANGED uiVars
    \/ \E p \in Callers : Settle(p)

SpecLive ==
    /\ Init
    /\ [][NextLive]_vars
    /\ \A p \in Callers : WF_vars(Settle(p))

\* ------------------------------------------------------ the App component
\* the variables of the key manager and of the execute calls, but lastSel
managerVars == <<keysString, keys, now, pc, attempts, maxAttempts, lastError,
                 currentKey, outcome, log, reportedAt, win, calls, ticks>>

\* one MediaItem, told by its mimeType
MediaItem(type) == [mimeType |-> type]

\* what handleContinueClick hands to onContinue(inputText, mediaItems): the
\* text and the array of media items, of which one at least is not empty
Inputs ==
    { [text |-> "notes", mediaItems |-> <<>>],
      [text |-> "", mediaItems |-> <<MediaItem("image/png")>>],
      [text |-> "notes", mediaItems |-> <<MediaItem("image/png")>>] }

\* setError("...") in the catch block of handleStartQuiz
FailureMessage == "quiz generation failed, try again"

\* handleInputComplete(text, base64Data, mimeType), called by InputSection
\* with two arguments: base64Data is the array of media items and mimeType
\* is undefined.  InputSection is on screen in the input step only.
HandleInputComplete(in) ==
    /\ app.step = "input"
    /\ app' = [app EXCEPT !.pendingText = in.text,
                          !.pendingBase64 = in.mediaItems,
                          !.pendingMime = Undefined,
                          !.step = "config"]
    /\ lastSel' = NoSel
    /\ UNCHANGED managerVars

\* try: setQuizData(data); setStep('quiz'), then finally: setIsLoading(false)
HandleSuccess(a, data) ==
    [a EXCEPT !.quizData = data, !.step = "quiz", !.isLoading = FALSE]

\* a slip of the catch block: the failure sends the user back to the input
HandleFailureBack(a) ==
    [a EXCEPT !.error = FailureMessage, !.step = "input", !.isLoading = FALSE]

\* catch: setError("..."), then finally: setIsLoading(false)
HandleFailure(a) ==
    [a EXCEPT !.error = FailureMessage, !.isLoading = FALSE]

\* handleStartQuiz(config) up to its await: the start button of QuizConfig
\* is on screen in the config step and disabled while isLoading.
\* generateQuizFromContent calls keyManager.execute as caller 1; when
\* execute throws before its first await, the catch block runs in the same
\* turn of the event loop.
HandleStartQuiz ==
    /\ app.step = "config"
    /\ ~app.isLoading
    /\ Call(1)
    /\ LET started == [app EXCEPT !.isLoading = TRUE, !.error = Null,
                                  !.left = FALSE]
       IN  app' = IF pc'[1] = "thrown" THEN HandleFailure(started) ELSE started

\* the awaited generateQuizFromContent fulfils
GenerationResolves ==
    /\ Resolve(1)
    /\ app' = HandleSuccess(app, outcome'[1].result)

\* an attempt of the generation rejects: execute retries, or throws and the
\* awaited generateQuizFromContent rejects
GenerationRejects(e) ==
    /\ Reject(1, e, 0)
    /\ app' = IF pc'[1] = "thrown" THEN HandleFailure(app) ELSE app

\* handleReset: the logo in the header and the reset of QuizDisplay
HandleReset ==
    /\ app' = [app EXCEPT !.quizData = NoQuizData, !.error = Null, !.step = "input",
                          !.pendingText = "", !.pendingBase64 = Null,
                          !.pendingMime = Null, !.left = TRUE]
    /\ lastSel' = NoSel
    /\ UNCHANGED managerVars

\* handleBackToInput: the back button of QuizConfig, disabled while
\* isLoading
HandleBackToInput ==
    /\ app.step = "config"
    /\ ~app.isLoading
    /\ app' = [app EXCEPT !.step = "input", !.error = Null, !.left = TRUE]
    /\ lastSel' = NoSel
    /\ UNCHANGED managerVars

\* the close button of the error banner: setError(null)
DismissError ==
    /\ app.error # Null
    /\ app' = [app EXCEPT !.error = Null]
    /\ lastSel' = NoSel
    /\ UNCHANGED managerVars

\* SpecApp: the user drives the App component, whose quiz generations are
\* the execute calls of caller 1
NextApp ==
    \/ \E in \in Inputs : HandleInputComplete(in) /\ UNCHANGED <<input, quiz>>
    \/ calls < MaxAppCalls /\ HandleStartQuiz /\ UNCHANGED <<input, quiz>>
    \/ GenerationResolves /\ UNCHANGED <<input, quiz>>
    \/ \E e \in OperationErrors :
          GenerationRejects(e) /\ UNCHANGED <<input, quiz>>
    \/ HandleReset /\ UNCHANGED <<input, quiz>>
    \/ HandleBackToInput /\ UNCHANGED <<input, quiz>>
    \/ DismissError /\ UNCHANGED <<input, quiz>>

SpecApp == Init /\ [][NextApp]_vars

\* ----------------------------------------------- the InputSection component
\* the number of items up to which the add-file button is on screen:
\* mediaItems.length < 10
MediaLimit == 10

\* the files of one selection in the file dialog (the input is `multiple`),
\* by MIME type
FileLists ==
    { <<"image/jpeg">>,
      <<"application/pdf", "text/plain", "image/jpeg">> }

\* file.type.startsWith('image/') || file.type === 'application/pdf'
Accepted(type) == type \in {"image/jpeg", "image/png", "application/pdf"}

\* s without its element i
Without(s, i) == SubSeq(s, 1, i - 1) \o SubSeq(s, i + 1, Len(s))

\* the click on the add-file button, which is on screen in upload mode
\* while mediaItems.length < 10: fileInputRef.current?.click() opens the
\* file dialog
OpenFileDialog ==
    /\ app.step = "input"
    /\ input.mode = "upload"
    /\ Len(input.mediaItems) < MediaLimit
    /\ input' = [input EXCEPT !.dialog = TRUE]
    /\ lastSel' = NoSel
    /\ UNCHANGED <<managerVars, app, quiz>>

\* the file dialog is closed without a selection: no change event
CancelFileDialog ==
    /\ input.dialog
    /\ input' = [input EXCEPT !.dialog = FALSE]
    /\ lastSel' = NoSel
    /\ UNCHANGED <<managerVars, app, quiz>>

\* handleFileChange, the change event of the file input when the dialog
\* is closed with a selection: a FileReader is started for every accepted
\* file; the handler does not look at mediaItems
HandleFileChange(files) ==
    /\ input.dialog
    /\ input' = [input EXCEPT !.reading = @ \o SelectSeq(files, Accepted),
                              !.dialog = FALSE]
    /\ lastSel' = NoSel
    /\ UNCHANGED <<managerVars, app, quiz>>

\* reader.onloadend of the i-th file that is being read:
\* setMediaItems(prev => [...prev, newItem])
FileLoaded(i) ==
    /\ app.step = "input"
    /\ i \in 1..Len(input.reading)
    /\ input' = [input EXCEPT
                    !.mediaItems = Append(@, MediaItem(input.reading[i])),
                    !.reading = Without(@, i)]
    /\ lastSel' = NoSel
    /\ UNCHANGED <<managerVars, app, quiz>>

\* the three mode buttons: setMode(m); the file input is on screen in
\* upload mode only, and a dialog of a file input that has left the screen
\* delivers no change event
SetMode(m) ==
    /\ app.step = "input"
    /\ input' = [input EXCEPT !.mode = m,
                              !.dialog = IF m = "upload" THEN @ ELSE FALSE]
    /\ lastSel' = NoSel
    /\ UNCHANGED <<managerVars, app, quiz>>

\* capturePhoto: the shutter button is on screen in camera mode
CapturePhoto ==
    /\ app.step = "input"
    /\ input.mode = "camera"
    /\ input' = [input EXCEPT
                    !.mediaItems = Append(@, MediaItem("image/jpeg")),
                    !.mode = "upload"]
    /\ lastSel' = NoSel
    /\ UNCHANGED <<managerVars, app, quiz>>

\* removeItem(index): the remove button of an item, on screen in upload
\* mode
RemoveItem(i) ==
    /\ app.step = "input"
    /\ input.mode = "upload"
    /\ i \in 1..Len(input.mediaItems)
    /\ input' = [input EXCEPT !.mediaItems = Without(@, i)]
    /\ lastSel' = NoSel
    /\ UNCHANGED <<managerVars, app, quiz>>

\* the media items attached or being read
MediaLoad == Len(input.mediaItems) + Len(input.reading)

\* SpecInput: the user attaches files and photos in the input step and
\* removes them again
NextInput ==
    \/ OpenFileDialog
    \/ CancelFileDialog
    \/ \E files \in FileLists :
          /\ MediaLoad + Len(SelectSeq(files, Accepted)) <= MaxMediaItems
          /\ HandleFileChange(files)
    \/ \E i \in 1..MaxMediaItems : FileLoaded(i)
    \/ \E m \in {"upload", "camera", "text"} : SetMode(m)
    \/ MediaLoad < MaxMediaItems /\ CapturePhoto
    \/ \E i \in 1..MaxMediaItems : RemoveItem(i)

InitInput == InitWith({<<"a">>})

SpecInput == InitInput /\ [][NextInput]_vars

\* ------------------------------------------------ the QuizDisplay component
\* QuizDisplay is on screen: step === 'quiz' && quizData
QuizMounted == app.step = "quiz" /\ app.quizData # NoQuizData

\* the values of the two buttons of a true/false question and the texts
\* typed into a text area
ButtonValues == {Sah, Khata}
TypedTexts == {Essay, Guess}

\* toLowerCase, letter by letter
UpperLetters == <<"A", "B", "C", "D", "E", "F", "G", "H", "I", "J", "K", "L",
                  "M", "N", "O", "P", "Q", "R", "S", "T", "U", "V", "W", "X",
                  "Y", "Z">>
LowerLetters == <<"a", "b", "c", "d", "e", "f", "g", "h", "i", "j", "k", "l",
                  "m", "n", "o", "p", "q", "r", "s", "t", "u", "v", "w", "x",
                  "y", "z">>
toLowerCase(c) ==
    IF \E i \in 1..Len(UpperLetters) : UpperLetters[i] = c
    THEN LowerLetters[CHOOSE i \in 1..Len(UpperLetters) : UpperLetters[i] = c]
    ELSE c

\* the letter replacements of normalizeText: the alef with hamza above,
\* with hamza below or with madda becomes the alef, the teh marbuta the
\* heh, the alef maksura the yeh
FoldLetter(c) ==
    IF c \in {"alef with hamza above", "alef with hamza below",
              "alef with madda above"}
    THEN "alef"
    ELSE IF c = "teh marbuta" THEN "heh"
    ELSE IF c = "alef maksura" THEN "yeh"
    ELSE c

\* the marks U+064B to U+0652 and U+0670, which normalizeText removes
Diacritics ==
    {"fathatan", "dammatan", "kasratan", "fatha", "damma", "kasra",
     "shadda", "sukun", "superscript alef"}

NoDiacritic(c) == c \notin Diacritics

\* replace(/\s+/g, ' '): every run of white space becomes one space
RECURSIVE CollapseSpace(_)
CollapseSpace(s) ==
    IF s = <<>> THEN <<>>
    ELSE IF Head(s) \in WhiteSpace
    THEN <<Space>> \o CollapseSpace(TrimStart(s))
    ELSE <<Head(s)>> \o CollapseSpace(Tail(s))

\* normalizeText: trim, toLowerCase, the letter replacements, the removal
\* of the marks and the replacement of white space, in this order
normalizeText(text) ==
    IF text = Undefined \/ text = <<>> THEN <<>>
    ELSE LET trimmed == Trim(text)
             folded == [i \in 1..Len(trimmed) |->
                           FoldLetter(toLowerCase(trimmed[i]))]
         IN  CollapseSpace(SelectSeq(folded, NoDiacritic))

\* s.includes(v)
Includes(s, v) ==
    \E i \in 1..(Len(s) - Len(v) + 1) : SubSeq(s, i, i + Len(v) - 1) = v

trueVariants ==
    { <<"sad", "hah">>,
      <<"t", "r", "u", "e">>,
      <<"y", "e", "s">>,
      <<"sad", "hah", "yeh", "hah">>,
      <<"sad", "waw", "alef", "beh">> }
falseVariants ==
    { <<"khah", "tah", "alef">>,
      <<"f", "a", "l", "s", "e">>,
      <<"n", "o">>,
      <<"khah", "alef", "tah", "yeh with hamza above">>,
      <<"khah", "alef", "tah", "yeh with hamza above", "heh">> }

isAnswerCorrectLocal(userAns, correctAns, type) ==
    IF userAns = Undefined \/ userAns = <<>> THEN FALSE
    ELSE IF type \in {"ShortAnswer", "FillInBlanks"} THEN FALSE
    ELSE LET normUser == normalizeText(userAns)
             normCorrect == normalizeText(correctAns)
             isUserTrue == normUser \in trueVariants
             isUserFalse == normUser \in falseVariants
             isCorrectTrue == \E v \in trueVariants : Includes(normCorrect, v)
             isCorrectFalse == \E v \in falseVariants : Includes(normCorrect, v)
         IN  \/ isUserTrue /\ isCorrectTrue
             \/ isUserFalse /\ isCorrectFalse
             \/ normUser = normCorrect

\* the verdict shown for question i of Questions on the screen q
IsCorrect(q, i) ==
    LET question == Questions[i]
    IN  IF question.type \in {"ShortAnswer", "FillInBlanks"}
        THEN q.aiGrades[question.id].isCorrect
        ELSE isAnswerCorrectLocal(q.userAnswers[question.id],
                                  question.correctAnswer, question.type)

calculateScore(q) == Cardinality({i \in 1..Len(Questions) : IsCorrect(q, i)})

\* the click on a button of true/false question i; the buttons are on
\* screen and enabled as long as the screen is, under the overlay of
\* isGrading and when the results are shown:
\* !showAnswers && setUserAnswers({...userAnswers, [q.id]: val})
SelectAnswer(i, val) ==
    /\ QuizMounted
    /\ Questions[i].type = "TrueFalse"
    /\ quiz' = IF quiz.showAnswers
               THEN [quiz EXCEPT !.clicked = TRUE]
               ELSE [quiz EXCEPT !.userAnswers[Questions[i].id] = val]
    /\ lastSel' = NoSel
    /\ UNCHANGED <<managerVars, app, input>>

\* typing into the text area of question i, disabled when showAnswers:
\* setUserAnswers({...userAnswers, [q.id]: e.target.value})
TypeAnswer(i, text) ==
    /\ QuizMounted
    /\ Questions[i].type \in {"ShortAnswer", "FillInBlanks"}
    /\ ~quiz.showAnswers
    /\ quiz' = [quiz EXCEPT !.userAnswers[Questions[i].id] = text]
    /\ lastSel' = NoSel
    /\ UNCHANGED <<managerVars, app, input>>

\* the continuation of the handleFinishExam call p after its await, try:
\* setAiGrades(gradesMap); setShowAnswers(true), then finally:
\* setIsGrading(false); the service returns one verdict per text question
GradingSuccess(q, p, verdict) ==
    [q EXCEPT !.aiGrades =
                  [id \in QuestionIds |->
                      IF \E i \in 1..Len(Questions) :
                             /\ Questions[i].id = id
                             /\ Questions[i].type \in {"ShortAnswer", "FillInBlanks"}
                      THEN [questionId |-> id, isCorrect |-> verdict]
                      ELSE Ungraded],
              !.showAnswers = TRUE, !.isGrading = FALSE,
              !.pending = @ \ {p},
              !.failed = FALSE, !.finished = q.sent[p]]

\* the continuation of the handleFinishExam call p after its await, catch:
\* console.error(error); setShowAnswers(true), then finally:
\* setIsGrading(false)
GradingFailure(q, p) ==
    [q EXCEPT !.showAnswers = TRUE, !.isGrading = FALSE,
              !.pending = @ \ {p},
              !.failed = TRUE, !.finished = q.sent[p]]

\* handleFinishExam up to its await: the finish button is on screen and
\* enabled while !showAnswers, under the overlay of isGrading too.
\* gradeShortAnswers(quizData.questions, userAnswers) calls
\* keyManager.execute, here as the grading call p; when execute throws
\* before its first await, the catch block runs in the same turn of the
\* event loop.
HandleFinishExam(p) ==
    /\ QuizMounted
    /\ ~quiz.showAnswers
    /\ Call(p)
    /\ LET started == [quiz EXCEPT !.isGrading = TRUE,
                                   !.pending = @ \cup {p},
                                   !.sent[p] = quiz.userAnswers]
       IN  quiz' = IF pc'[p] = "thrown" THEN GradingFailure(started, p)
                   ELSE started
    /\ UNCHANGED <<app, input>>

\* the awaited gradeShortAnswers of the grading call p fulfils; the state
\* updates of a call whose screen is gone have no effect
GradingResolves(p, verdict) ==
    /\ Resolve(p)
    /\ quiz' = IF p \in quiz.pending THEN GradingSuccess(quiz, p, verdict)
               ELSE quiz
    /\ UNCHANGED <<app, input>>

\* an attempt of the grading call p rejects: execute retries, or throws
\* and the awaited gradeShortAnswers rejects
GradingRejects(p, e) ==
    /\ Reject(p, e, 0)
    /\ quiz' = IF pc'[p] = "thrown" /\ p \in quiz.pending
               THEN GradingFailure(quiz, p)
               ELSE quiz
    /\ UNCHANGED <<app, input>>

\* the grading call that the next handleFinishExam makes: the first one
\* that is not in flight
FreeGrading(p) ==
    /\ pc[p] # "awaiting"
    /\ \A q \in GradingCallers : q < p => pc[q] = "awaiting"

\* what the operations of the user interface reject with: the quota error
\* of the service
QuizErrors == {StatusError(429)}

\* SpecQuiz: the user goes through the App component to a quiz, answers
\* it and has it graded; QuizDisplay starts from its initial state each
\* time it comes on screen
NextQuiz ==
    \/ \E in \in Inputs : HandleInputComplete(in) /\ UNCHANGED <<input, quiz>>
    \/ calls < MaxQuizCalls /\ HandleStartQuiz /\ UNCHANGED <<input, quiz>>
    \/ GenerationResolves /\ quiz' = QuizInit /\ UNCHANGED input
    \/ \E e \in QuizErrors :
          GenerationRejects(e) /\ UNCHANGED <<input, quiz>>
    \/ HandleReset /\ quiz' = QuizInit /\ UNCHANGED input
    \/ HandleBackToInput /\ UNCHANGED <<input, quiz>>
    \/ DismissError /\ UNCHANGED <<input, quiz>>
    \/ \E i \in 1..Len(Questions), val \in ButtonValues : SelectAnswer(i, val)
    \/ \E i \in 1..Len(Questions), text \in TypedTexts : TypeAnswer(i, text)
    \/ \E p \in GradingCallers :
          calls < MaxQuizCalls /\ FreeGrading(p) /\ HandleFinishExam(p)
    \/ \E p \in GradingCallers, verdict \in BOOLEAN : GradingResolves(p, verdict)
    \/ \E p \in GradingCallers, e \in QuizErrors : GradingRejects(p, e)

\* the values of process.env.API_KEY under which a quiz comes on screen and
\* a call can be retried
QuizEnvStrings == { <<"a">>, <<"a", ",", "b">> }

InitQuiz == InitOver(QuizEnvStrings, QuizCallers)

SpecQuiz == InitQuiz /\ [][NextQuiz]_vars

\* ------------------------------------------------------------- the claims
\* the number of times a call has invoked operation
Invocations(p) == Len(log[p])

AllPenalized(p) == \A i \in 1..Len(log[p]) : log[p][i].penalized

\* C1: with a pool of N >= 1 keys one execute call invokes operation at
\* most N times; when every attempt of a call that has thrown failed with
\* an error that counts as rate limit or server error, the call made exactly
\* N attempts and threw the error of its last attempt.
C1_BoundedAttempts ==
    Len(keys) >= 1 =>
        \A p \in Callers :
            /\ Invocations(p) <= Len(keys)
            /\ (pc[p] = "thrown" /\ AllPenalized(p)) =>
                   /\ Invocations(p) = Len(keys)
                   /\ outcome[p] = Threw(lastError[p])

\* a call on three keys has thrown after three penalized attempts
C1_Witness ==
    \E p \in Callers :
        /\ Len(keys) = 3
        /\ pc[p] = "thrown"
        /\ Invocations(p) = 3
        /\ AllPenalized(p)

\* C2: when no key is configured every execute call throws the "No API keys
\* configured." error without invoking operation, and the pool stays empty.
C2_EmptyPoolFailsFast ==
    rawKeys(keysString) = <<>> =>
        /\ keys = <<>>
        /\ reportedAt = <<>>
        /\ \A p \in Callers :
              /\ Invocations(p) = 0
              /\ pc[p] \in {"idle", "thrown"}
              /\ pc[p] = "thrown" => outcome[p] = Threw(ConfigError)

\* an execute call has thrown on a pool built from a blank configuration
C2_Witness ==
    /\ rawKeys(keysString) = <<>>
    /\ keysString # <<>>
    /\ \E p \in Callers : pc[p] = "thrown" /\ calls = 2

\* position in the array snap of the key object id
PosIn(snap, id) == CHOOSE i \in 1..Len(snap) : snap[i].id = id

\* id x comes before id y by lastUsed as recorded in snap, ties by the order
\* of snap
UsedEarlier(snap, x, y) ==
    LET a == snap[PosIn(snap, x)]
        b == snap[PosIn(snap, y)]
    IN  \/ a.lastUsed < b.lastUsed
        \/ a.lastUsed = b.lastUsed /\ PosIn(snap, x) < PosIn(snap, y)

\* C3: when all N keys are healthy and up to N execute calls follow one
\* another, each succeeding on its first attempt, the calls select the keys
\* in ascending order of the lastUsed values the keys had before the first
\* of these calls (ties by pool order), each key once.
C3_RoundRobinByRecency ==
    win.open =>
        \A i \in 1..Len(win.picks) :
            /\ win.picks[i] \notin {win.picks[j] : j \in 1..(i - 1)}
            /\ \A id \in {win.snap[j].id : j \in 1..Len(win.snap)}
                             \ {win.picks[j] : j \in 1..(i - 1)} :
                   id = win.picks[i] \/ UsedEarlier(win.snap, win.picks[i], id)

\* the key object that the getBestKey call recorded in sel read its result
\* from, as it was before the call
SelectedBefore(sel) == sel.before[PosIn(sel.before, sel.id)]

HealthyAt(k, t) == k.cooldownUntil <= t

\* C4: a key object whose cooldown was set at time t is not the one selected
\* by a getBestKey call before t + COOLDOWN_DURATION when another key is
\* healthy at that call; in a call at or after its cooldownUntil it competes
\* again: the selected key is healthy and was not used later than it (ties by
\* pool order).
C4_CooldownEnforced ==
    lastSel.made =>
        \A i \in 1..Len(lastSel.before) :
            LET k == lastSel.before[i]
                t == lastSel.rep[k.id]
            IN  t > 0 =>
                  /\ ( /\ lastSel.at < t + COOLDOWN_DURATION
                       /\ \E j \in 1..Len(lastSel.before) :
                              j # i /\ HealthyAt(lastSel.before[j], lastSel.at) )
                         => lastSel.id # k.id
                  /\ lastSel.at >= k.cooldownUntil =>
                         LET s == SelectedBefore(lastSel)
                         IN  /\ HealthyAt(s, lastSel.at)
                             /\ \/ s.lastUsed < k.lastUsed
                                \/ /\ s.lastUsed = k.lastUsed
                                   /\ PosIn(lastSel.before, s.id) <= i

\* a getBestKey call on three keys: one cooling down and passed over, one
\* whose cooldown has just ended and which is selected
C4_Witness ==
    /\ lastSel.made
    /\ \E i, j \in 1..Len(lastSel.before) :
          /\ lastSel.rep[lastSel.before[i].id] > 0
          /\ lastSel.at < lastSel.rep[lastSel.before[i].id] + COOLDOWN_DURATION
          /\ lastSel.rep[lastSel.before[j].id] > 0
          /\ lastSel.at = lastSel.before[j].cooldownUntil
          /\ lastSel.id = lastSel.before[j].id

\* C5: when the pool is not empty and every key is cooling down, getBestKey
\* returns the key of a key object with the smallest cooldownUntil of the
\* whole pool, never null.
C5_FallbackPicksSoonest ==
    ( /\ lastSel.made
      /\ Len(lastSel.before) > 0
      /\ \A i \in 1..Len(lastSel.before) :
             lastSel.before[i].cooldownUntil > lastSel.at )
    => /\ lastSel.key # NoKey
       /\ lastSel.id # 0
       /\ lastSel.key = SelectedBefore(lastSel).key
       /\ \A i \in 1..Len(lastSel.before) :
              SelectedBefore(lastSel).cooldownUntil
                  <= lastSel.before[i].cooldownUntil

\* a getBestKey call on keys that are all cooling down, with different
\* cooldownUntil
C5_Witness ==
    /\ lastSel.made
    /\ Len(lastSel.before) >= 2
    /\ \A i \in 1..Len(lastSel.before) :
           lastSel.before[i].cooldownUntil > lastSel.at
    /\ \E i \in 1..Len(lastSel.before) :
           lastSel.before[i].cooldownUntil > SelectedBefore(lastSel).cooldownUntil

\* the cooldownUntil of every key object
Cooldowns(ks) == {<<ks[i].id, ks[i].cooldownUntil>> : i \in 1..Len(ks)}

\* C6: the steps of an execute call whose first attempt succeeds (the
\* selection of its first key and the return of the result) leave the
\* cooldownUntil of every key unchanged, and the call returns the result of
\* that attempt.
C6_SuccessLeavesCooldowns ==
    [][\A p \in Callers :
          /\ (pc[p] # "awaiting" /\ pc'[p] = "awaiting")
                => Cooldowns(keys') = Cooldowns(keys)
          /\ (pc[p] = "awaiting" /\ pc'[p] = "returned" /\ attempts[p] = 0)
                => /\ Cooldowns(keys') = Cooldowns(keys)
                   /\ outcome'[p] = Returned(OperationResult(log[p][1].key))
      ]_vars

\* a call has returned after one attempt while a key of the pool is cooling
\* down
C6_Witness ==
    \E p \in Callers :
        /\ pc[p] = "returned"
        /\ Invocations(p) = 1
        /\ \E i \in 1..Len(keys) : keys[i].cooldownUntil > now

\* the key object with identity id, as it is now
KeyObject(id) == keys[PosIn(keys, id)]

\* C7: on the fresh pool [a, b] the first execute call selects a; when that
\* attempt throws an error with status 429, a gets cooldownUntil = time of
\* the failure + 60000 and the retry selects b; when b's attempt succeeds
\* the call returns b's result after exactly 2 invocations of operation,
\* and b's cooldownUntil is still 0.
C7_Scenario ==
    \A p \in Callers :
        ( /\ rawKeys(keysString) = << <<"a">>, <<"b">> >>
          /\ calls = 1
          /\ Invocations(p) >= 1 )
        => /\ log[p][1].id = 1
           /\ log[p][1].key = <<"a">>
           /\ (attempts[p] = 1 /\ lastError[p] = StatusError(429)) =>
                 /\ reportedAt[1] >= StartTime
                 /\ reportedAt[1] <= now
                 /\ KeyObject(1).cooldownUntil = reportedAt[1] + 60000
                 /\ Invocations(p) = 2
                 /\ log[p][2].id = 2
                 /\ log[p][2].key = <<"b">>
                 /\ KeyObject(2).cooldownUntil = 0
                 /\ pc[p] = "returned" =>
                        outcome[p] = Returned(OperationResult(<<"b">>))

\* the scenario has run to its end, some time after the failure of a
C7_Witness ==
    \E p \in Callers :
        /\ rawKeys(keysString) = << <<"a">>, <<"b">> >>
        /\ calls = 1
        /\ attempts[p] = 1
        /\ lastError[p] = StatusError(429)
        /\ pc[p] = "returned"
        /\ now > reportedAt[1]

\* the budget of the call is used up: the loop was left by its break
BudgetExhausted(p) == Invocations(p) >= 1 /\ attempts[p] >= maxAttempts[p]

\* C8: an execute call ends by returning the result of an attempt that
\* succeeded or by throwing; when it throws with its budget used up, what
\* it throws is the value the most recent attempt rejected with.
C8_TerminalErrorIsLast ==
    \A p \in Callers :
        /\ pc[p] = "returned" =>
               /\ log[p][Len(log[p])].state = "resolved"
               /\ outcome[p] = Returned(OperationResult(log[p][Len(log[p])].key))
        /\ pc[p] = "thrown" => outcome[p].type = "throw"
        /\ (pc[p] = "thrown" /\ BudgetExhausted(p)) =>
               outcome[p].error = lastError[p]

\* the configured keys are pairwise different
DistinctSecrets ==
    \A i, j \in 1..Len(keys) : keys[i].key = keys[j].key => i = j

\* C9: in one execute call on N >= 2 keys, the key of a penalized attempt
\* is put in cooldown and the next attempt uses another key; when all N
\* attempts are penalized they use N different keys.  Stated for pools of
\* pairwise different secrets.
C9_RetryRotates ==
    (Len(keys) >= 2 /\ DistinctSecrets) =>
        \A p \in Callers :
            /\ \A i \in 1..Len(log[p]) :
                   log[p][i].penalized =>
                       /\ reportedAt[log[p][i].id] > 0
                       /\ i < Len(log[p]) => log[p][i + 1].id # log[p][i].id
            /\ (AllPenalized(p) /\ Invocations(p) = Len(keys)) =>
                   \A i, j \in 1..Len(log[p]) :
                       log[p][i].id = log[p][j].id => i = j

\* C10: in one execute call on N >= 2 keys, the attempt after one that
\* failed without being penalized uses another key.  Stated for pools of
\* pairwise different secrets and for the states the claim names, in which
\* another key of the pool is cooling down.
C10_NonRetryableRotates ==
    ( /\ Len(keys) >= 2
      /\ DistinctSecrets
      /\ \E j \in 1..Len(keys) : keys[j].cooldownUntil > now )
    => \A p \in Callers :
           \A i \in 1..(Len(log[p]) - 1) :
               (log[p][i].state = "rejected" /\ ~log[p][i].penalized) =>
                   log[p][i + 1].id # log[p][i].id

\* the value rejected with carries no sign of rate limiting, of quota or of
\* a server error, neither in its status nor in its message
NonRetryable(e) ==
    /\ ~(e.hasStatus /\ (e.status = 429 \/ e.status >= 500))
    /\ e.message \cap {"429", "Quota", "500", "503"} = {}

\* the step in which the pending attempt of call p is rejected
Rejected(p) ==
    /\ pc[p] = "awaiting"
    /\ log'[p][Len(log[p])].state = "rejected"

\* C11: the step in which an attempt fails with a non-retryable error adds
\* one to the attempts of its call, which stay within the budget (the call
\* throws when the budget is used up and never invokes operation more often
\* than the budget allows), and leaves the cooldownUntil of every key
\* unchanged.
C11_NonRetryableKeepsCooldowns ==
    [][\A p \in Callers :
          (Rejected(p) /\ NonRetryable(lastError'[p])) =>
              /\ attempts'[p] = attempts[p] + 1
              /\ attempts'[p] <= maxAttempts[p]
              /\ attempts'[p] >= maxAttempts[p] => pc'[p] = "thrown"
              /\ Len(log'[p]) <= maxAttempts[p]
              /\ Cooldowns(keys') = Cooldowns(keys)
      ]_vars

\* an attempt has failed with status 404 while a key of the pool is cooling
\* down, and the call has gone on to its next attempt
C11_Witness ==
    \E p \in Callers :
        /\ lastError[p] = StatusError(404)
        /\ attempts[p] >= 1
        /\ pc[p] = "awaiting"
        /\ \E i \in 1..Len(keys) : keys[i].cooldownUntil > now

\* the classification the specification gives, which is narrower than the
\* test of the catch block (isRateLimit, isServerError): the error signals
\* rate limiting or quota (status 429, or a message that names 429 or the
\* quota) or carries an HTTP status from 500 to 599 (as its status, or in
\* its message when it has no status)
SignalsRetryable(e) ==
    \/ e.hasStatus /\ e.status = 429
    \/ e.message \cap {"429", "Quota"} # {}
    \/ e.hasStatus /\ e.status >= 500 /\ e.status <= 599
    \/ ~e.hasStatus /\ e.message \cap {"500", "503"} # {}

\* C12: the step in which an attempt fails reports the failure of its key
\* (and so sets its cooldownUntil to the time of the failure + 60000)
\* exactly when the error signals rate limiting or quota or carries an HTTP
\* status from 500 to 599; for every other error reportFailure is not
\* called.
C12_PenalizedIffRetryable ==
    [][\A p \in Callers :
          Rejected(p) =>
              /\ log'[p][Len(log[p])].penalized <=> SignalsRetryable(lastError'[p])
              /\ log'[p][Len(log[p])].penalized =>
                     \E i \in 1..Len(keys') :
                         /\ keys'[i].key = currentKey[p]
                         /\ keys'[i].cooldownUntil = now + COOLDOWN_DURATION
      ]_vars

\* the number of times the key object id was handed to operation by the
\* attempts on record
SelectedTimes(id) ==
    Cardinality({pj \in Callers \X (1..MaxKeys) :
                    /\ pj[2] <= Len(log[pj[1]])
                    /\ log[pj[1]][pj[2]].id = id})

\* C13: a getBestKey call that returns a key, through the active keys or
\* through the fallback when all keys are cooling down, has set the lastUsed
\* of the key object it returns to the time of the call and added one to its
\* usageCount; so, as long as one execute call has been made, the usageCount
\* of every key object is the number of times it was selected.
C13_SelectionCounts ==
    /\ (lastSel.made /\ lastSel.id # 0) =>
           /\ KeyObject(lastSel.id).lastUsed = lastSel.at
           /\ KeyObject(lastSel.id).usageCount
                  = SelectedBefore(lastSel).usageCount + 1
    /\ calls = 1 =>
           \A i \in 1..Len(keys) :
               keys[i].usageCount = SelectedTimes(keys[i].id)

\* C14: a getBestKey call made while at least one key is active returns an
\* active key whose lastUsed is the smallest among the active keys; of the
\* active keys with that lastUsed it returns the one that comes first in
\* this.keys as the call finds it.
C14_LeastRecentlyUsedActive ==
    ( /\ lastSel.made
      /\ \E i \in 1..Len(lastSel.before) :
             HealthyAt(lastSel.before[i], lastSel.at) )
    => LET s == SelectedBefore(lastSel)
       IN  /\ lastSel.key = s.key
           /\ HealthyAt(s, lastSel.at)
           /\ \A i \in 1..Len(lastSel.before) :
                  HealthyAt(lastSel.before[i], lastSel.at) =>
                      \/ s.lastUsed < lastSel.before[i].lastUsed
                      \/ /\ s.lastUsed = lastSel.before[i].lastUsed
                         /\ PosIn(lastSel.before, s.id) <= i

\* a getBestKey call on three keys: the first is cooling down, the other
\* two are active and were last used at the same time, and the first of
\* these two is returned
C14_Witness ==
    /\ lastSel.made
    /\ Len(lastSel.before) = 3
    /\ ~HealthyAt(lastSel.before[1], lastSel.at)
    /\ HealthyAt(lastSel.before[2], lastSel.at)
    /\ HealthyAt(lastSel.before[3], lastSel.at)
    /\ lastSel.before[2].lastUsed = lastSel.before[3].lastUsed
    /\ lastSel.before[2].lastUsed > 0
    /\ lastSel.id = lastSel.before[2].id

\* the cooldownUntil of the key object id in the array ks
CooldownOf(ks, id) == ks[PosIn(ks, id)].cooldownUntil

\* C15: in every step the cooldownUntil of a key object stays as it is or
\* grows; when it changes, the step is the failure of an attempt made with
\* the secret of that key object, for which reportFailure is called, and
\* the new value is the time of the failure + 60000.
C15_CooldownOnlyByReport ==
    [][\A id \in 1..Len(keys) :
          /\ CooldownOf(keys', id) >= CooldownOf(keys, id)
          /\ CooldownOf(keys', id) # CooldownOf(keys, id) =>
                 \E p \in Callers :
                     /\ Rejected(p)
                     /\ log'[p][Len(log[p])].penalized
                     /\ currentKey[p] = KeyObject(id).key
                     /\ CooldownOf(keys', id) = now + COOLDOWN_DURATION
      ]_vars

\* two key objects have been put in cooldown at different times and the
\* pool has been sorted since: the one reported first now comes first
C15_Witness ==
    \E i, j \in 1..Len(keys) :
        /\ i < j
        /\ keys[i].id > keys[j].id
        /\ reportedAt[keys[i].id] > 0
        /\ reportedAt[keys[j].id] > reportedAt[keys[i].id]
        /\ keys[j].cooldownUntil = reportedAt[keys[j].id] + COOLDOWN_DURATION

\* call p is in flight on its first attempt
FirstAttemptPending(p) ==
    pc[p] = "awaiting" /\ attempts[p] = 0 /\ Len(log[p]) = 1

\* C16: when a call makes its first selection while another call is in
\* flight on its first attempt, and at least two keys are active at that
\* selection, the two calls hold different key objects.  Stated for pools
\* of pairwise different secrets and for selections at which no two keys
\* have the same lastUsed.
C16_ConcurrentSelectionsDiffer ==
    \A p, q \in Callers :
        ( /\ p # q
          /\ DistinctSecrets
          /\ \A i, j \in 1..Len(lastSel.before) :
                 lastSel.before[i].lastUsed = lastSel.before[j].lastUsed => i = j
          /\ FirstAttemptPending(p)
          /\ FirstAttemptPending(q)
          /\ lastSel.made
          /\ Cardinality({i \in 1..Len(lastSel.before) :
                             HealthyAt(lastSel.before[i], lastSel.at)}) >= 2 )
        => log[p][1].id # log[q][1].id

\* another execute call is in flight while call p takes a step
OthersInFlight(p) == \E q \in Callers : q # p /\ pc[q] = "awaiting"

\* C17: on a pool of N >= 1 keys, in every step that a call takes while
\* another call is in flight: the call has invoked operation at most N
\* times; a cooldownUntil changes only for the secret of the attempt that
\* fails in this step; a call that returns returns the result of its own
\* attempt, and a call that throws throws the error of its own last
\* attempt.
C17_ConcurrentCallsIndependent ==
    [][\A p \in Callers :
          (Len(keys) >= 1 /\ OthersInFlight(p) /\ pc[p] = "awaiting") =>
              /\ Len(log'[p]) <= Len(keys)
              /\ \A id \in 1..Len(keys) :
                     ( /\ CooldownOf(keys', id) # CooldownOf(keys, id)
                       /\ log'[p] # log[p] )
                     => /\ Rejected(p)
                        /\ KeyObject(id).key = log[p][Len(log[p])].key
              /\ pc'[p] = "returned" =>
                     outcome'[p] = Returned(OperationResult(log[p][Len(log[p])].key))
              /\ pc'[p] = "thrown" =>
                     outcome'[p] = Threw(lastError'[p])
      ]_vars

\* secrets a failure can be reported for: configured ones and one that is
\* in no pool
Secrets == {<<"a">>, <<"b">>, <<"c">>, <<"d">>, <<"z">>}

\* the array after differs from the array before, on which a failure of
\* secret was reported at time t, in nothing but the cooldownUntil of one
\* record holding secret, which is t + 60000; it is the array before when no
\* record holds secret
ReportFrame(before, secret, t, after) ==
    LET matching == {i \in 1..Len(before) : before[i].key = secret}
    IN  /\ Len(after) = Len(before)
        /\ matching = {} => after = before
        /\ matching # {} =>
               \E i \in matching :
                   /\ after[i] = [before[i] EXCEPT
                                     !.cooldownUntil = t + COOLDOWN_DURATION]
                   /\ \A j \in 1..Len(before) : j # i => after[j] = before[j]

\* C18: on every pool the program reaches, reportFailure(secret) at the
\* current time sets the cooldownUntil of the matching record to now + 60000
\* and changes nothing else, and changes nothing at all when no record holds
\* the secret; and the step in which the last attempt of a call fails with a
\* reported error changes this.keys in exactly this way.
C18_ReportFailureFrame ==
    [][/\ \A secret \in Secrets :
              ReportFrame(keys, secret, now, reportFailure(keys, secret, now))
       /\ \A p \in Callers :
              ( /\ Rejected(p)
                /\ log'[p][Len(log[p])].penalized
                /\ pc'[p] = "thrown" )
              => ReportFrame(keys, currentKey[p], now, keys')
      ]_vars

\* on the pool of two records with the same secret, the last attempt of a
\* call was made with the second record and its failure was reported: the
\* first record is cooling down, the second has never been
C18_Witness ==
    \E p \in Callers :
        /\ Len(keys) = 2
        /\ keys[1].key = keys[2].key
        /\ pc[p] = "thrown"
        /\ Len(log[p]) = 2
        /\ log[p][2].penalized
        /\ log[p][2].id = 2
        /\ KeyObject(1).cooldownUntil > 0
        /\ KeyObject(2).cooldownUntil = 0
        /\ KeyObject(2).usageCount > 0

\* the step is a call of handleStartQuiz: an execute call is made in the
\* config step, where the start button of QuizConfig is the only control
\* that leads to one (the gradings are started in the quiz step)
StartsGeneration == calls' # calls /\ app.step = "config"

\* the step in which the quiz generation of the App component fails: the
\* execute call of caller 1 throws, after its await or in the step in which
\* it is made
GenerationFails ==
    /\ pc'[1] = "thrown"
    /\ pc[1] = "awaiting" \/ StartsGeneration

\* C19 as stated: the step in which the quiz generation fails sets the one
\* error message of the App component and ends the loading with the
\* application on the config step, not on the quiz step, and with quizData
\* null.
C19_FailureOnConfigStep ==
    [][GenerationFails =>
          /\ app'.error = FailureMessage
          /\ ~app'.isLoading
          /\ app'.step = "config"
          /\ app'.quizData = NoQuizData
      ]_vars

\* C19 amended: the step in which the quiz generation fails sets the one
\* error message of the App component and ends the loading, leaves the step
\* as it is, which is the config step unless the user has left it since the
\* generation was started, never the quiz step, and leaves quizData null.
C19_FailureStaysOnConfig ==
    [][GenerationFails =>
          /\ app'.error = FailureMessage
          /\ ~app'.isLoading
          /\ app'.step = app.step
          /\ app'.step # "quiz"
          /\ ~app'.left => app'.step = "config"
          /\ app'.quizData = NoQuizData
          /\ app'.quizData = app.quizData
      ]_vars

\* a generation has failed after a retry: the error message is on screen
\* in the config step and no quiz is shown
C19_Witness ==
    /\ pc[1] = "thrown"
    /\ Len(log[1]) >= 2
    /\ app.step = "config"
    /\ app.error = FailureMessage
    /\ ~app.isLoading
    /\ calls = 2

\* the execute call of caller p has been made and has neither returned nor
\* thrown
InFlight(p) == pc[p] \notin {"idle", "returned", "thrown"}

\* C20: when every invocation of operation settles, every execute call
\* that is in flight returns or throws in the end.
C20_ExecuteCompletes ==
    \A p \in Callers : InFlight(p) ~> (pc[p] \in {"returned", "thrown"})

\* a call has thrown after three failed attempts while the other call has
\* returned after a retry
C20_Witness ==
    \E p, q \in Callers :
        /\ pc[p] = "thrown"
        /\ Len(log[p]) = 3
        /\ pc[q] = "returned"
        /\ Len(log[q]) >= 2

\* the key objects of ks in the order of their construction
ById(ks) == [id \in 1..Len(ks) |-> ks[PosIn(ks, id)]]

\* C21: in every reachable state the pool holds the key objects the
\* constructor made, each once and each with the secret it was made with: no
\* step adds, removes or replaces a record or changes a secret.
C21_PoolFixed ==
    LET built == Constructor(keysString)
    IN  /\ Len(keys) = Len(built)
        /\ \A id \in 1..Len(built) :
               /\ Cardinality({i \in 1..Len(keys) : keys[i].id = id}) = 1
               /\ KeyObject(id).key = built[id].key
        /\ [i \in 1..Len(keys) |-> ById(keys)[i].key] = rawKeys(keysString)

\* two execute calls have been made on three keys, failures were reported
\* and the fallback has sorted the pool into another order
C21_Witness ==
    /\ Len(keys) = 3
    /\ calls = 2
    /\ \E i \in 1..Len(keys) : keys[i].id # i
    /\ \A i \in 1..Len(keys) : keys[i].cooldownUntil > 0

\* the positions that bound the comma-separated pieces of s: before its
\* first character, its commas, and after its last character
Bounds(s) == {0, Len(s) + 1} \cup {i \in 1..Len(s) : s[i] = Comma}

\* the positions of the piece that starts after bound b which hold
\* something else than white space
Inked(s, b) ==
    LET next == CHOOSE c \in Bounds(s) :
                    c > b /\ \A x \in Bounds(s) : x > b => c <= x
    IN  {i \in (b + 1)..(next - 1) : s[i] \notin WhiteSpace}

Lowest(S) == CHOOSE x \in S : \A y \in S : x <= y
Highest(S) == CHOOSE x \in S : \A y \in S : x >= y

\* the tokens of s: its pieces without the white space at their ends, the
\* pieces that hold white space only left out, in the order of s
Tokens(s) ==
    LET starts == {b \in Bounds(s) \ {Len(s) + 1} : Inked(s, b) # {}}
        nth(k) == CHOOSE b \in starts :
                      Cardinality({x \in starts : x < b}) = k - 1
    IN  [k \in 1..Cardinality(starts) |->
            SubSeq(s, Lowest(Inked(s, nth(k))), Highest(Inked(s, nth(k))))]

\* C22: the constructor maps the configuration string to one record per
\* token (the trimmed, non-empty comma-separated pieces, in their order),
\* each with lastUsed = 0, usageCount = 0 and cooldownUntil = 0, and this
\* is the pool before the first execute call; a string without any token
\* (absent, empty, blank) gives the empty pool.
C22_ConstructorParses ==
    LET tokens == Tokens(keysString)
        built == Constructor(keysString)
    IN  /\ Len(built) = Len(tokens)
        /\ \A i \in 1..Len(tokens) :
               built[i] = [id |-> i, key |-> tokens[i], lastUsed |-> 0,
                           usageCount |-> 0, cooldownUntil |-> 0]
        /\ calls = 0 => keys = built
        /\ (\A i \in 1..Len(keysString) : keysString[i] \in WhiteSpace)
               => built = <<>>

\* the manager has just been constructed from "b, a": the pool is [b, a]
C22_Witness ==
    /\ keysString = <<"b", Comma, Space, "a">>
    /\ calls = 0
    /\ Len(keys) = 2
    /\ keys[1].key = <<"b">>
    /\ keys[2].key = <<"a">>

\* an attempt of the current execute call of caller p has succeeded
Succeeded(p) == \E i \in 1..Len(log[p]) : log[p][i].state = "resolved"

\* C23: the step in which an attempt of an execute call succeeds makes the
\* call return; it makes no selection, reports no failure and invokes
\* operation no more.  From then on, until the caller makes its next
\* execute call, no step invokes operation for that call or changes what
\* the call holds, however many attempts failed before.
C23_SuccessEndsCall ==
    [][\A p \in Callers :
          /\ (~Succeeded(p) /\ Succeeded(p)') =>
                 /\ pc'[p] = "returned"
                 /\ ~lastSel'.made
                 /\ keys' = keys
                 /\ reportedAt' = reportedAt
                 /\ Len(log'[p]) = Len(log[p])
                 /\ attempts'[p] = attempts[p]
          /\ Succeeded(p) =>
                 \/ /\ calls' = calls + 1
                    /\ attempts'[p] = 0
                    /\ ~Succeeded(p)'
                 \/ /\ pc'[p] = "returned"
                    /\ log'[p] = log[p]
                    /\ attempts'[p] = attempts[p]
                    /\ currentKey'[p] = currentKey[p]
                    /\ outcome'[p] = outcome[p]
      ]_vars

\* a call has returned at its third attempt, and the other call has made a
\* selection since
C23_Witness ==
    \E p, q \in Callers :
        /\ pc[p] = "returned"
        /\ Len(log[p]) = 3
        /\ attempts[p] = 2
        /\ p # q
        /\ lastSel.made
        /\ pc[q] = "awaiting"

\* String.prototype.slice(-n): the last n characters, the whole string when
\* it has no more than n
SliceLast(s, n) == SubSeq(s, IF Len(s) > n THEN Len(s) - n + 1 ELSE 1, Len(s))

\* what console.error prints of the key for failed attempt i of caller p:
\* `Attempt ${attempts} failed with key ...${currentKey.slice(-4)}:`
AttemptText(p, i) == [attempt |-> i, keyEnd |-> SliceLast(log[p][i].key, 4)]

\* what console.warn prints of the key in reportFailure:
\* `API Key ending in ...${keyString.slice(-4)} marked for cooldown.`
CooldownText(keyString) == [keyEnd |-> SliceLast(keyString, 4)]

\* C24: for every failed attempt, what the log line of the attempt shows of
\* its key is not the whole key, and neither is what the log line of the
\* cooldown shows when the failure is reported, whatever the length of the
\* key.
C24_LogHidesSecret ==
    \A p \in Callers :
        \A i \in 1..Len(log[p]) :
            /\ log[p][i].state = "rejected" =>
                   AttemptText(p, i).keyEnd # log[p][i].key
            /\ log[p][i].penalized =>
                   CooldownText(log[p][i].key).keyEnd # log[p][i].key

\* the error banner of App, the only place where the application shows a
\* failure message, is on screen
FailureMessageShown == app.error # Null

\* the final summary card with the score and the verdict of every question
\* are on screen
ResultsShown == QuizMounted /\ quiz.showAnswers

\* C25: when the grading of the quiz on screen has failed (the execute
\* call of gradeShortAnswers has thrown), a failure message is on screen
\* and the final score and the verdicts are not.
C25_GradingFailureSurfaced ==
    (QuizMounted /\ quiz.failed) =>
        /\ FailureMessageShown
        /\ ~ResultsShown

\* C26: the list of attached media items never holds more than 10 items.
C26_AtMostTenItems == Len(input.mediaItems) <= MediaLimit

\* the score the summary card would show if it were computed from the
\* answers that the grading on display was started with
ScoreOfFinished == calculateScore([quiz EXCEPT !.userAnswers = quiz.finished])

\* C27: on a quiz screen that shows its results, every step that leaves
\* the screen up keeps showAnswers true and keeps every recorded answer,
\* and the score on display is the one computed from the answers as they
\* were when the finish button was pressed.
C27_ResultsAreFinal ==
    [][/\ (ResultsShown /\ QuizMounted') =>
              /\ quiz'.showAnswers
              /\ quiz'.userAnswers = quiz.userAnswers
       /\ ResultsShown' => calculateScore(quiz') = ScoreOfFinished'
      ]_vars

\* C28: in every reachable state the key objects stand in this.keys in the
\* order in which the constructor made them, which is the order of the
\* configuration string.
C28_PoolOrderKept == \A i \in 1..Len(keys) : keys[i].id = i

\* C29: at a getBestKey call made less than 60000 ms after a failure was
\* reported for a secret, no key object that holds this secret is among the
\* active keys, also when several key objects hold it.
C29_SecretCooledEverywhere ==
    lastSel.made =>
        \A i, j \in 1..Len(lastSel.before) :
            LET k == lastSel.before[i]
                t == lastSel.rep[lastSel.before[j].id]
            IN  ( /\ k.key = lastSel.before[j].key
                  /\ t > 0
                  /\ lastSel.at < t + COOLDOWN_DURATION )
                => ~IsActive(k, lastSel.at)

\* the step in which the quiz generation of the App component ends, with a
\* quiz or with a failure: the awaited call settles, or execute throws in
\* the step in which it is called
GenerationEnds ==
    /\ pc'[1] \in {"returned", "thrown"}
    /\ pc[1] = "awaiting" \/ StartsGeneration

\* C30: when the user has reset the application while the quiz generation
\* was in flight and is on the input step when the generation ends, the
\* application stays on the input step with quizData = null.
C30_ResetIsFinal ==
    [][( /\ GenerationEnds
         /\ app.isLoading
         /\ app.left
         /\ app.step = "input" )
       => /\ app'.step = "input"
          /\ app'.quizData = NoQuizData
      ]_vars

====
